---- MODULE Spec2Model ----
(***************************************************************************)
(* The S21 protocol engine of Tools/Simulators/faikin-s21.c: the frame     *)
(* reader, the checksum validation, the command dispatcher and the         *)
(* handshake wait of main(), over the simulated unit state.                *)
(*                                                                         *)
(* One step of the model is what main() does between two blocking read()  *)
(* calls: the byte just read is stored, and if it completes a candidate    *)
(* frame the frame is validated and dispatched, with every write it makes, *)
(* until the program blocks in the next read() (or exits).                 *)
(***************************************************************************)
EXTENDS Integers, Sequences, FiniteSets, TLC

(***************************************************************************)
(* Protocol constants (main/daikin_s21.h) and character literals.          *)
(***************************************************************************)
STX == 2
ETX == 3
ACK == 6
NAK == 21
S21_STX_OFFSET == 0
S21_CMD0_OFFSET == 1
S21_CMD1_OFFSET == 2
S21_PAYLOAD_OFFSET == 3
S21_FRAMING_LEN == 3
S21_PAYLOAD_LEN == 4
AC_MIN_TEMP_VALUE == 64

ch_0 == 48
ch_1 == 49
ch_2 == 50
ch_5 == 53
ch_6 == 54
ch_3 == 51
ch_4 == 52
ch_7 == 55
ch_8 == 56
ch_9 == 57
ch_B == 66
ch_C == 67
ch_D == 68
ch_F == 70
ch_G == 71
ch_H == 72
ch_I == 73
ch_K == 75
ch_L == 76
ch_M == 77
ch_N == 78
ch_P == 80
ch_Q == 81
ch_R == 82
ch_S == 83
ch_T == 84
ch_V == 86
ch_X == 88
ch_a == 97
ch_d == 100
ch_plus == 43
ch_minus == 45

\* unsigned char arithmetic
ByteMod == 256

\* sizeof(buf)
BufSize == 256

\* the part of response[256] that main() and its helpers touch: a reply is
\* at most S21_FRAMING_LEN + 2 + S21_PAYLOAD_LEN bytes long
RespSize == S21_FRAMING_LEN + 2 + S21_PAYLOAD_LEN

\* exit(255)
EXIT_FAILURE_255 == 255

Byte(x) == x % ByteMod

VARIABLES
    pc,         \* where main() is blocked: "reader" (line 253), "handshake" (line 543), "exit"
    status,     \* the exit status once pc = "exit"
    buf,        \* unsigned char buf[256]
    len,        \* int len
    l,          \* int l: what the last read() of the frame reader returned
    response,   \* unsigned char response[256], its first RespSize bytes
    power, mode, temp, fan, swing, powerful, eco,
    home, outside, inlet, fanrpm, comprpm, protocol, model,
    chan,       \* the serial channel: "open" or "closed" (read() returns 0)
    rx,         \* history: the byte the last successful read() delivered
    tx,         \* the writes of the last step, in order, each a byte sequence
    lastD1      \* history: the four payload bytes of the last D1 frame handled

unit == <<power, mode, temp, fan, swing, powerful, eco,
          home, outside, inlet, fanrpm, comprpm, protocol, model>>

vars == <<pc, status, buf, len, l, response, unit, chan, rx, tx, lastD1>>

(***************************************************************************)
(* Framing codec.                                                          *)
(***************************************************************************)
RECURSIVE SumRange(_, _, _)
\* b[from] + ... + b[to], 0 when the range is empty
SumRange(b, from, to) ==
    IF from > to THEN 0
    ELSE IF from = to THEN b[from]
    ELSE LET mid == (from + to) \div 2
         IN  SumRange(b, from, mid) + SumRange(b, mid + 1, to)

\* s21_checksum(buf, len): the byte sum of buf[1 .. len-3], which leaves out
\* STX, the checksum field and ETX
s21_checksum(b, n) == Byte(SumRange(b, S21_CMD0_OFFSET, n - 3))

\* the first n bytes of array b, as a sequence (what write(p, b, n) sends)
Bytes(b, n) == [i \in 1..n |-> b[i - 1]]

(***************************************************************************)
(* Value codec.                                                            *)
(***************************************************************************)
\* temp is kept in half degrees: 18.0 + 0.5 * (v - '@') is 36 + (v - '@')
s21_decode_target_temp(v) == 36 + (v - AC_MIN_TEMP_VALUE)

s21_encode_target_temp(t) == (t - 36) + AC_MIN_TEMP_VALUE

s21_decode_fan(v) == v - ch_0

s21_encode_fan(f) == f + ch_0

RECURSIVE DecDigits(_)
\* the decimal digits of v >= 0, as ASCII characters
DecDigits(v) ==
    IF v < 10 THEN <<ch_0 + v>> ELSE Append(DecDigits(v \div 10), ch_0 + (v % 10))

Abs(v) == IF v < 0 THEN -v ELSE v

\* printf's "%+d"
FmtPlusD(v) == <<IF v < 0 THEN ch_minus ELSE ch_plus>> \o DecDigits(Abs(v))

RECURSIVE ZeroPad(_, _)
ZeroPad(s, w) == IF Len(s) >= w THEN s ELSE ZeroPad(<<ch_0>> \o s, w)

\* printf's "%03d": the sign counts in the width
FmtZero3D(v) ==
    IF v < 0 THEN <<ch_minus>> \o ZeroPad(DecDigits(-v), 2)
    ELSE ZeroPad(DecDigits(v), 3)

\* snprintf(b, size, ...) into an uninitialized char b[size]: at most size-1
\* characters, then a NUL; the bytes after the NUL keep what the stack held
Snprintf(size, s, junk) ==
    [i \in 0..(size - 1) |->
        LET n == IF Len(s) < size - 1 THEN Len(s) ELSE size - 1
        IN  IF i < n THEN s[i + 1] ELSE IF i = n THEN 0 ELSE junk]

(***************************************************************************)
(* Reply builders.  Each returns the response array as it is when the ACK  *)
(* is written (pre), as it is when the frame is written (resp), and the    *)
(* frame's length.                                                         *)
(***************************************************************************)
\* mutant: the end marker is not stored
s21_nonstd_reply_noETX(r, body_len) ==
    LET pkt_len == S21_FRAMING_LEN + body_len
        r1 == [r EXCEPT ![S21_STX_OFFSET] = STX]
        r2 == [r1 EXCEPT ![S21_CMD0_OFFSET + body_len] = s21_checksum(r1, pkt_len)]
    IN  [kind |-> "reply", pre |-> r, resp |-> r2, pkt_len |-> pkt_len]

\* mutant: the checksum is taken over one byte less
s21_nonstd_reply_sumShort(r, body_len) ==
    LET pkt_len == S21_FRAMING_LEN + body_len
        r1 == [r EXCEPT ![S21_STX_OFFSET] = STX]
        r2 == [r1 EXCEPT ![S21_CMD0_OFFSET + body_len] = s21_checksum(r1, pkt_len - 1)]
        r3 == [r2 EXCEPT ![S21_CMD0_OFFSET + body_len + 1] = ETX]
    IN  [kind |-> "reply", pre |-> r, resp |-> r3, pkt_len |-> pkt_len]

s21_nonstd_reply(r, body_len) ==
    LET pkt_len == S21_FRAMING_LEN + body_len
        r1 == [r EXCEPT ![S21_STX_OFFSET] = STX]
        r2 == [r1 EXCEPT ![S21_CMD0_OFFSET + body_len] = s21_checksum(r1, pkt_len)]
        r3 == [r2 EXCEPT ![S21_CMD0_OFFSET + body_len + 1] = ETX]
    IN  [kind |-> "reply", pre |-> r, resp |-> r3, pkt_len |-> pkt_len]

s21_reply(r, cmd, payload_len) ==
    s21_nonstd_reply([r EXCEPT ![S21_CMD0_OFFSET] = Byte(cmd[S21_CMD0_OFFSET] + 1),
                               ![S21_CMD1_OFFSET] = cmd[S21_CMD1_OFFSET]],
                     2 + payload_len)

Payload4(r, r0, r1, r2, r3) ==
    [r EXCEPT ![3] = r0, ![4] = r1, ![5] = r2, ![6] = r3]

unknown_cmd(r, cmd, r0, r1, r2, r3) ==
    s21_reply(Payload4(r, r0, r1, r2, r3), cmd, S21_PAYLOAD_LEN)

send_temp(r, cmd, value, junk) ==
    LET b == Snprintf(5, FmtPlusD(value), junk)
    IN  s21_reply(Payload4(r, b[3], b[2], b[1], b[0]), cmd, S21_PAYLOAD_LEN)

\* the reply's command bytes are taken from the local digit buffer, which
\* shadows the request in the call s21_reply(p, response, buf, 3)
send_int(r, cmd, value, junk) ==
    LET b == Snprintf(4, FmtZero3D(value), junk)
    IN  s21_reply([r EXCEPT ![S21_PAYLOAD_OFFSET + 0] = b[2],
                            ![S21_PAYLOAD_OFFSET + 1] = b[1],
                            ![S21_PAYLOAD_OFFSET + 2] = b[0]],
                  b, 3)

(***************************************************************************)
(* Command dispatcher: what main() does with a checksum-valid frame b.     *)
(* The result says which writes follow (kind), the response array, and the *)
(* unit fields a set command assigns.                                      *)
(***************************************************************************)
\* C's integer division truncates toward zero
CDiv(a, b) == IF a >= 0 THEN a \div b ELSE -((-a) \div b)

NoSet ==
    [power |-> power, mode |-> mode, temp |-> temp, fan |-> fan,
     swing |-> swing, powerful |-> powerful]

\* mutant: case '1' takes the mode from payload byte 0
SetCommand_modeFromPower(b) ==
    [kind |-> "set"] @@
    ( CASE b[S21_CMD1_OFFSET] = ch_1 ->
             [NoSet EXCEPT !.power = b[S21_PAYLOAD_OFFSET + 0] - ch_0,
                           !.mode = b[S21_PAYLOAD_OFFSET + 0] - ch_0,
                           !.temp = s21_decode_target_temp(b[S21_PAYLOAD_OFFSET + 2]),
                           !.fan = s21_decode_fan(b[S21_PAYLOAD_OFFSET + 3])]
        [] b[S21_CMD1_OFFSET] = ch_5 ->
             [NoSet EXCEPT !.swing = b[S21_PAYLOAD_OFFSET + 0] - ch_0]
        [] b[S21_CMD1_OFFSET] = ch_6 ->
             [NoSet EXCEPT !.powerful =
                 IF b[S21_PAYLOAD_OFFSET + 0] = ch_2 THEN 1 ELSE 0]
        [] OTHER -> NoSet )

\* mutant: the default case runs the code of case '5'
SetCommand_defaultSetsSwing(b) ==
    [kind |-> "set"] @@
    ( CASE b[S21_CMD1_OFFSET] = ch_1 ->
             [NoSet EXCEPT !.power = b[S21_PAYLOAD_OFFSET + 0] - ch_0,
                           !.mode = b[S21_PAYLOAD_OFFSET + 1] - ch_0,
                           !.temp = s21_decode_target_temp(b[S21_PAYLOAD_OFFSET + 2]),
                           !.fan = s21_decode_fan(b[S21_PAYLOAD_OFFSET + 3])]
        [] b[S21_CMD1_OFFSET] = ch_6 ->
             [NoSet EXCEPT !.powerful =
                 IF b[S21_PAYLOAD_OFFSET + 0] = ch_2 THEN 1 ELSE 0]
        [] OTHER ->
             [NoSet EXCEPT !.swing = b[S21_PAYLOAD_OFFSET + 0] - ch_0] )

\* mutant: case '6' also clears swing
SetCommand_d6ClearsSwing(b) ==
    [kind |-> "set"] @@
    ( CASE b[S21_CMD1_OFFSET] = ch_1 ->
             [NoSet EXCEPT !.power = b[S21_PAYLOAD_OFFSET + 0] - ch_0,
                           !.mode = b[S21_PAYLOAD_OFFSET + 1] - ch_0,
                           !.temp = s21_decode_target_temp(b[S21_PAYLOAD_OFFSET + 2]),
                           !.fan = s21_decode_fan(b[S21_PAYLOAD_OFFSET + 3])]
        [] b[S21_CMD1_OFFSET] = ch_5 ->
             [NoSet EXCEPT !.swing = b[S21_PAYLOAD_OFFSET + 0] - ch_0]
        [] b[S21_CMD1_OFFSET] = ch_6 ->
             [NoSet EXCEPT !.powerful =
                 IF b[S21_PAYLOAD_OFFSET + 0] = ch_2 THEN 1 ELSE 0,
                           !.swing = 0]
        [] OTHER -> NoSet )

\* if (buf[1] == 'D'): s21_ack(), then the switch on buf[2]
SetCommand(b) ==
    [kind |-> "set"] @@
    ( CASE b[S21_CMD1_OFFSET] = ch_1 ->
             [NoSet EXCEPT !.power = b[S21_PAYLOAD_OFFSET + 0] - ch_0,
                           !.mode = b[S21_PAYLOAD_OFFSET + 1] - ch_0,
                           !.temp = s21_decode_target_temp(b[S21_PAYLOAD_OFFSET + 2]),
                           !.fan = s21_decode_fan(b[S21_PAYLOAD_OFFSET + 3])]
        [] b[S21_CMD1_OFFSET] = ch_5 ->
             [NoSet EXCEPT !.swing = b[S21_PAYLOAD_OFFSET + 0] - ch_0]
        [] b[S21_CMD1_OFFSET] = ch_6 ->
             [NoSet EXCEPT !.powerful =
                 IF b[S21_PAYLOAD_OFFSET + 0] = ch_2 THEN 1 ELSE 0]
        [] OTHER -> NoSet )

Nak == [kind |-> "nak"]

\* if (buf[1] == 'F'): the switch on buf[2]
QueryCommand(b, r) ==
    LET c == b[S21_CMD1_OFFSET] IN
    CASE c = ch_1 ->
           s21_reply(Payload4(r, Byte(power + ch_0), Byte(mode + ch_0),
                              Byte(s21_encode_target_temp(temp)),
                              Byte(s21_encode_fan(fan))),
                     b, S21_PAYLOAD_LEN)
      [] c = ch_2 -> unknown_cmd(r, b, 61, 59, 0, 128)
      [] c = ch_3 ->
           s21_reply(Payload4(r, 48, 254, 254, IF powerful # 0 THEN 2 ELSE 0),
                     b, S21_PAYLOAD_LEN)
      [] c = ch_4 -> unknown_cmd(r, b, 48, 0, 128, 48)
      [] c = ch_5 -> s21_reply(Payload4(r, Byte(swing), 0, 0, 0), b, S21_PAYLOAD_LEN)
      [] c = ch_6 ->
           s21_reply(Payload4(r, IF powerful # 0 THEN 2 ELSE 0, 0, 0, 0),
                     b, S21_PAYLOAD_LEN)
      [] c = ch_7 ->
           s21_reply(Payload4(r, 0, IF eco # 0 THEN ch_2 ELSE ch_0, 0, 0),
                     b, S21_PAYLOAD_LEN)
      [] c = ch_8 ->
           \* response[6] is not assigned: it keeps what an earlier reply left
           s21_reply([r EXCEPT ![3] = ch_0, ![4] = Byte(ch_0 + protocol), ![5] = ch_0],
                     b, S21_PAYLOAD_LEN)
      [] c = ch_9 ->
           s21_reply(Payload4(r, Byte(CDiv(home, 5) + 128),
                              Byte(CDiv(outside, 5) + 128), 255, 48),
                     b, S21_PAYLOAD_LEN)
      [] c = ch_C ->
           s21_reply(Payload4(r, model[4], model[3], model[2], model[1]),
                     b, S21_PAYLOAD_LEN)
      [] c = ch_B -> unknown_cmd(r, b, 48, 51, 54, 48)
      [] c = ch_G -> unknown_cmd(r, b, 48, 52, 48, 48)
      [] c = ch_K -> unknown_cmd(r, b, 113, 115, 53, 49)
      [] c = ch_M -> unknown_cmd(r, b, 51, 66, 48, 48)
      [] c = ch_N -> unknown_cmd(r, b, 48, 48, 48, 48)
      [] c = ch_P -> unknown_cmd(r, b, 55, 51, 48, 48)
      [] c = ch_Q -> unknown_cmd(r, b, 69, 51, 48, 48)
      [] c = ch_R -> unknown_cmd(r, b, 48, 48, 48, 48)
      [] c = ch_S -> unknown_cmd(r, b, 48, 48, 48, 48)
      [] c = ch_T -> unknown_cmd(r, b, 49, 48, 48, 48)
      [] c = ch_V -> unknown_cmd(r, b, 51, 55, 131, 48)
      [] OTHER -> Nak

\* mutant: the last filler byte is not stored
ProbeCommand_shortFill(r) ==
    s21_nonstd_reply([r EXCEPT ![S21_CMD0_OFFSET] = ch_M, ![2] = ch_F, ![3] = ch_F,
                               ![4] = ch_F], 5)

\* else if (buf[1] == 'M')
ProbeCommand(r) ==
    s21_nonstd_reply([r EXCEPT ![S21_CMD0_OFFSET] = ch_M, ![2] = ch_F, ![3] = ch_F,
                               ![4] = ch_F, ![5] = ch_F], 5)

\* else if (buf[1] == 'R'): the switch on buf[2]
SensorCommand(b, r, junk) ==
    LET c == b[S21_CMD1_OFFSET] IN
    CASE c = ch_H -> send_temp(r, b, home, junk)
      [] c = ch_I -> send_temp(r, b, inlet, junk)
      [] c = ch_a -> send_temp(r, b, outside, junk)
      [] c = ch_L -> send_int(r, b, fanrpm, junk)
      [] c = ch_d -> send_int(r, b, comprpm, junk)
      [] c = ch_N -> send_temp(r, b, 235, junk)
      [] c = ch_X -> send_temp(r, b, 215, junk)
      [] OTHER -> Nak

\* mutant: a frame of an unknown class is acknowledged like a set command
Dispatch_unknownAcked(b, r, junk) ==
    IF b[1] = ch_D THEN SetCommand(b)
    ELSE IF b[1] = ch_F THEN QueryCommand(b, r)
    ELSE IF b[S21_CMD0_OFFSET] = ch_M THEN ProbeCommand(r)
    ELSE IF b[S21_CMD0_OFFSET] = ch_R THEN SensorCommand(b, r, junk)
    ELSE [kind |-> "set"] @@ NoSet

\* the if / else-if chain on buf[1]
Dispatch(b, r, junk) ==
    IF b[1] = ch_D THEN SetCommand(b)
    ELSE IF b[1] = ch_F THEN QueryCommand(b, r)
    ELSE IF b[S21_CMD0_OFFSET] = ch_M THEN ProbeCommand(r)
    ELSE IF b[S21_CMD0_OFFSET] = ch_R THEN SensorCommand(b, r, junk)
    ELSE Nak

(***************************************************************************)
(* The peer: the byte streams the controller sends.  It sends frames of a  *)
(* menu, byte by byte, line noise between frames, and one byte after each  *)
(* reply.                                                                  *)
(***************************************************************************)
SeqSum(s) == SumRange(s, 1, Len(s))

\* a frame as the controller builds it around a body
Framed(body) == <<STX>> \o body \o <<Byte(SeqSum(body)), ETX>>

\* the same frame with its checksum byte corrupted
Corrupted(body) == <<STX>> \o body \o <<Byte(SeqSum(body) + 1), ETX>>

Fill(n, c) == [i \in 1..n |-> c]

\* how many filler bytes the peer's over-long probe frame carries
ExtraPayload == 7

\* D1 with power 1, mode 2, 20.0 degrees, fan 1
D1Body == <<ch_D, ch_1, ch_1, ch_2, ch_D, ch_1>>

\* D1 with power 0, mode 3, 22.5 degrees, fan 3
D1Defaults == <<ch_D, ch_1, ch_0, ch_3, ch_I, ch_3>>

MainFrames ==
    { Framed(D1Body),
      Framed(D1Defaults),
      Framed(<<ch_D, ch_5, ch_1, ch_0, ch_0, ch_0>>),
      Framed(<<ch_D, ch_6, ch_2, ch_0, ch_0, ch_0>>),
      Framed(<<ch_D>>),                 \* STX 'D' 'D' ETX: set, unknown sub-command
      Framed(<<ch_F, ch_1>>),
      Framed(<<ch_F>>),                 \* STX 'F' 'F' ETX: query, unknown sub-command
      Framed(<<ch_M>>),                 \* STX 'M' 'M' ETX: the identity probe
      Framed(<<ch_R, ch_H>>),
      Framed(<<ch_R, ch_L>>),
      Framed(<<ch_R>>),                 \* STX 'R' 'R' ETX: sensor, unknown sub-command
      Framed(<<>>),                     \* STX 00 ETX: three bytes
      Framed(<<ch_M>> \o Fill(ExtraPayload, ch_0)),  \* eleven bytes or more
      Corrupted(<<ch_F, ch_1>>),
      <<STX, ETX>> }

\* line noise while no frame is open
GarbageBytes == {ACK, ETX}

\* what the controller sends after a reply
HandshakeBytes == {ACK, STX, NAK}

\* what an uninitialized byte may hold
JunkBytes == {0, 165}

\* the bytes the peer may send next, given the frame prefix buf[0 .. len-1]
PeerNext(frames) ==
    { f[len + 1] : f \in { g \in frames :
                             /\ Len(g) > len
                             /\ \A i \in 1..len : g[i] = buf[i - 1] } }
    \cup (IF len = 0 THEN GarbageBytes ELSE {})

(***************************************************************************)
(* Initial state: the defaults of the globals, buf[0] = 0, and the rest of *)
(* buf and response uninitialized.                                         *)
(***************************************************************************)
Init ==
    /\ pc = "reader"
    /\ status = 0
    /\ \E g \in JunkBytes : buf = [i \in 0..(BufSize - 1) |-> IF i = 0 THEN 0 ELSE g]
    /\ len = 0
    /\ l = 0
    /\ \E g \in JunkBytes : response = [i \in 0..(RespSize - 1) |-> g]
    /\ power = 0
    /\ mode = 3
    /\ temp = 45
    /\ fan = 3
    /\ swing = 0
    /\ powerful = 0
    /\ eco = 0
    /\ home = 245
    /\ outside = 205
    /\ inlet = 185
    /\ fanrpm = 52
    /\ comprpm = 42
    /\ protocol = 2
    /\ model = <<ch_1, ch_3, ch_5, ch_D>>
    /\ chan = "open"
    /\ rx = 0
    /\ tx = <<>>
    /\ lastD1 = <<>>

(***************************************************************************)
(* serial_write() fails: exit(255).  A failing write is taken to have sent  *)
(* nothing; written holds the writes that succeeded before it.             *)
(***************************************************************************)
WriteFailed(nb, n, r, written) ==
    /\ pc' = "exit"
    /\ status' = EXIT_FAILURE_255
    /\ buf' = nb
    /\ len' = n
    /\ response' = r
    /\ tx' = written
    /\ UNCHANGED <<unit, lastD1>>

\* mutant: buf[0] is left as it is, so line 249 finds the frame's STX there
BackToReader_keepsFirst(nb) ==
    /\ pc' = "reader"
    /\ buf' = nb
    /\ len' = IF nb[0] = STX THEN 1 ELSE 0
    /\ UNCHANGED status

\* the packet is dropped or answered without a reply: buf[0] = 0; continue
BackToReader(nb) ==
    /\ pc' = "reader"
    /\ buf' = [nb EXCEPT ![0] = 0]
    /\ len' = 0
    /\ UNCHANGED status

\* mutant: the checksum is not tested
ChecksumOk_skipped(nb, n) == TRUE

\* lines 274-279: the checksum test
ChecksumOk(nb, n) == s21_checksum(nb, n) = nb[n - 2]

\* lines 272-538: the candidate frame nb[0 .. n-1] is validated and
\* dispatched.  wf is the write that fails (0: none).
ProcessFrame(nb, n, wf, junk) ==
    IF ~ChecksumOk(nb, n)
    THEN /\ BackToReader(nb)
         /\ tx' = <<>>
         /\ UNCHANGED <<response, unit, lastD1>>
    ELSE LET h == Dispatch(nb, response, junk) IN
         CASE h.kind = "set" ->
                IF wf = 1
                THEN WriteFailed(nb, n, response, <<>>)
                ELSE /\ BackToReader(nb)
                     /\ tx' = << <<ACK>> >>
                     /\ power' = h.power
                     /\ mode' = h.mode
                     /\ temp' = h.temp
                     /\ fan' = h.fan
                     /\ swing' = h.swing
                     /\ powerful' = h.powerful
                     /\ lastD1' = IF nb[S21_CMD1_OFFSET] = ch_1
                                  THEN [i \in 1..S21_PAYLOAD_LEN |->
                                           nb[S21_PAYLOAD_OFFSET + i - 1]]
                                  ELSE lastD1
                     /\ UNCHANGED <<response, eco, home, outside, inlet, fanrpm,
                                    comprpm, protocol, model>>
           [] h.kind = "nak" ->
                IF wf = 1
                THEN WriteFailed(nb, n, response, <<>>)
                ELSE /\ BackToReader(nb)
                     /\ tx' = << <<NAK>> >>
                     /\ UNCHANGED <<response, unit, lastD1>>
           [] h.kind = "reply" ->
                IF wf = 1
                THEN WriteFailed(nb, n, h.pre, <<>>)
                ELSE IF wf = 2
                THEN WriteFailed(nb, n, h.resp, << <<ACK>> >>)
                ELSE /\ pc' = "handshake"
                     /\ buf' = nb
                     /\ len' = n
                     /\ response' = h.resp
                     /\ tx' = << <<ACK>>, Bytes(h.resp, h.pkt_len) >>
                     /\ UNCHANGED <<status, unit, lastD1>>

(***************************************************************************)
(* Lines 246-270: the frame reader gets one byte from read().              *)
(***************************************************************************)
ReadByte(frames) ==
    /\ pc = "reader"
    /\ chan = "open"
    /\ \E b \in PeerNext(frames) :
        LET nb == [buf EXCEPT ![len] = b] IN
        /\ l' = 1
        /\ rx' = b
        /\ UNCHANGED chan
        /\ IF len = 0 /\ b # STX
           THEN \* garbage byte: it stays in buf[0], len stays 0
                /\ buf' = nb
                /\ tx' = <<>>
                /\ UNCHANGED <<pc, status, len, response, unit, lastD1>>
           ELSE IF b # ETX /\ len + 1 < BufSize
           THEN \* the frame goes on
                /\ buf' = nb
                /\ len' = len + 1
                /\ tx' = <<>>
                /\ UNCHANGED <<pc, status, response, unit, lastD1>>
           ELSE \* ETX, or the buffer is full: the inner loop ends
                \E wf \in 0..2, junk \in JunkBytes :
                    ProcessFrame(nb, len + 1, wf, junk)

\* mutant: a start marker read in place of the ACK is dropped like any other byte
HandshakeByte_noCarry ==
    /\ pc = "handshake"
    /\ chan = "open"
    /\ \E b \in HandshakeBytes :
        /\ pc' = "reader"
        /\ rx' = b
        /\ buf' = [buf EXCEPT ![0] = 0]
        /\ len' = 0
        /\ tx' = <<>>
        /\ UNCHANGED <<status, l, response, unit, chan, lastD1>>

\* mutant: the wait goes on until the byte is ACK or the start marker
HandshakeByte_waitsForAck ==
    /\ pc = "handshake"
    /\ chan = "open"
    /\ \E b \in HandshakeBytes :
        /\ pc' = IF b \in {ACK, STX} THEN "reader" ELSE "handshake"
        /\ rx' = b
        /\ buf' = [buf EXCEPT ![0] = IF b = STX THEN b ELSE 0]
        /\ len' = IF b = STX THEN 1 ELSE 0
        /\ tx' = <<>>
        /\ UNCHANGED <<status, l, response, unit, chan, lastD1>>

(***************************************************************************)
(* Lines 540-564: the byte after a reply.                                  *)
(***************************************************************************)
HandshakeByte ==
    /\ pc = "handshake"
    /\ chan = "open"
    /\ \E b \in HandshakeBytes :
        /\ pc' = "reader"
        /\ rx' = b
        /\ buf' = [buf EXCEPT ![0] = IF b = STX THEN b ELSE 0]
        /\ len' = IF b = STX THEN 1 ELSE 0
        /\ tx' = <<>>
        /\ UNCHANGED <<status, l, response, unit, chan, lastD1>>

(***************************************************************************)
(* read() returns 0 on the closed channel: both loops read again.          *)
(***************************************************************************)
ReadZero ==
    /\ chan = "closed"
    /\ \/ /\ pc = "reader"
          /\ l' = 0
          /\ UNCHANGED len
       \/ /\ pc = "handshake"
          /\ len' = 0
          /\ UNCHANGED l
    /\ tx' = <<>>
    /\ UNCHANGED <<pc, status, buf, response, unit, chan, rx, lastD1>>

(***************************************************************************)
(* read() fails: exit(255).                                                *)
(***************************************************************************)
ReadError ==
    /\ \/ /\ pc = "reader"
          /\ l' = -1
          /\ UNCHANGED len
       \/ /\ pc = "handshake"
          /\ len' = -1
          /\ UNCHANGED l
    /\ pc' = "exit"
    /\ status' = EXIT_FAILURE_255
    /\ tx' = <<>>
    /\ UNCHANGED <<buf, response, unit, chan, rx, lastD1>>

\* the peer closes the channel
ChannelClose ==
    /\ chan = "open"
    /\ pc # "exit"
    /\ chan' = "closed"
    /\ UNCHANGED <<pc, status, buf, len, l, response, unit, rx, tx, lastD1>>

(***************************************************************************)
(* The engine against a channel that delivers bytes: frames of MainFrames, *)
(* handshake bytes, and writes that may fail.                              *)
(***************************************************************************)
Next ==
    \/ ReadByte(MainFrames)
    \/ HandshakeByte

Spec == Init /\ [][Next]_vars

(***************************************************************************)
(* Frames that fill the buffer: 256 bytes, the last of which is not ETX    *)
(* (with a matching byte at the checksum position, or not), and one that   *)
(* ends with ETX exactly at the last place.                                *)
(***************************************************************************)
LongBody(head) == head \o Fill(BufSize - 3 - Len(head), ch_0)

LongFrames ==
    { <<STX>> \o LongBody(<<ch_M>>) \o <<Byte(SeqSum(LongBody(<<ch_M>>))), ch_0>>,
      <<STX>> \o LongBody(D1Body) \o <<Byte(SeqSum(LongBody(D1Body))), ch_0>>,
      <<STX>> \o LongBody(<<ch_F, ch_1>>) \o <<ch_0, ch_0>>,
      Framed(LongBody(<<ch_F, ch_1>>)),
      Framed(<<ch_F, ch_1>>) }

NextLong ==
    \/ ReadByte(LongFrames)
    \/ HandshakeByte

SpecLong == Init /\ [][NextLong]_vars

(***************************************************************************)
(* The engine on a channel the peer may close.  The engine's own steps are *)
(* fair: a read() that can return does return.  Errors are not.            *)
(***************************************************************************)
CloseFrames == { Framed(<<ch_F, ch_1>>), Framed(<<ch_D>>), Corrupted(<<ch_F, ch_1>>) }

NextClose ==
    \/ ReadByte(CloseFrames)
    \/ HandshakeByte
    \/ ReadZero
    \/ ReadError
    \/ ChannelClose

SpecClose ==
    /\ Init
    /\ [][NextClose]_vars
    /\ WF_vars(ReadByte(CloseFrames))
    /\ WF_vars(HandshakeByte)
    /\ WF_vars(ReadZero)

(***************************************************************************)
(*                              PROPERTIES                                 *)
(*                                                                         *)
(* Vocabulary shared by the properties.  A step of the frame reader that   *)
(* consumed a byte is one taken from "reader" with l' = 1; the candidate   *)
(* frame it may complete is the buffer with that byte stored at buf[len].  *)
(***************************************************************************)
ReaderStep == pc = "reader" /\ l' = 1 /\ chan' = chan

Cand == [buf EXCEPT ![len] = rx']

CandLen == len + 1

\* the step ends the inner loop: ETX received, or the buffer is full
Completes == ReaderStep /\ len >= 1 /\ (rx' = ETX \/ CandLen = BufSize)

\* the trailing checksum byte equals the checksum over the received bytes
CandValid == Cand[CandLen - 2] = s21_checksum(Cand, CandLen)

\* the step is the handshake wait receiving its byte
HandshakeStep == pc = "handshake" /\ pc' = "reader"

RecognizedF ==
    {ch_1, ch_2, ch_3, ch_4, ch_5, ch_6, ch_7, ch_8, ch_9, ch_B, ch_C, ch_G,
     ch_K, ch_M, ch_N, ch_P, ch_Q, ch_R, ch_S, ch_T, ch_V}

RecognizedR == {ch_H, ch_I, ch_a, ch_L, ch_d, ch_N, ch_X}

RecognizedD == {ch_1, ch_5, ch_6}

ResponseBearing(c) ==
    \/ c[1] = ch_F /\ c[2] \in RecognizedF
    \/ c[1] = ch_R /\ c[2] \in RecognizedR
    \/ c[1] = ch_M

Unrecognized(c) ==
    \/ c[1] = ch_F /\ c[2] \notin RecognizedF
    \/ c[1] = ch_R /\ c[2] \notin RecognizedR
    \/ c[1] \notin {ch_D, ch_F, ch_M, ch_R}

\* f is a frame: start marker, body, checksum over the body, end marker
IsFramed(f) ==
    /\ Len(f) >= S21_FRAMING_LEN + 1
    /\ f[1] = STX
    /\ f[Len(f)] = ETX
    /\ f[Len(f) - 1] = Byte(SumRange(f, 2, Len(f) - 2))

AckThenFrame(w) == Len(w) = 2 /\ w[1] = <<ACK>> /\ IsFramed(w[2])

(***************************************************************************)
(* C1.  A checksum-valid frame with a recognized F or R sub-command, or    *)
(* with first identifier byte M, is answered (when no write fails) by      *)
(* exactly two writes before the engine waits for the handshake byte: the  *)
(* single byte ACK, then one frame STX .. checksum ETX.  The step that     *)
(* consumes the handshake byte writes nothing.                             *)
(***************************************************************************)
C1_AckThenReply ==
    [][ /\ (Completes /\ CandValid /\ ResponseBearing(Cand) /\ pc' # "exit")
            => (pc' = "handshake" /\ AckThenFrame(tx'))
        /\ HandshakeStep => tx' = <<>> ]_vars

\* the engine has answered F1 and waits for the handshake byte
C1_Witness ==
    /\ pc = "handshake"
    /\ buf[1] = ch_F /\ buf[2] = ch_1
    /\ AckThenFrame(tx)

(***************************************************************************)
(* C2.  A candidate frame whose trailing checksum byte differs from the    *)
(* checksum over the received bytes is dropped: nothing is written, no     *)
(* field of the unit state changes, the engine does not wait for a         *)
(* handshake byte, and the next reader cycle starts with length 0.         *)
(***************************************************************************)
C2_BadChecksumSilent ==
    [][ (Completes /\ ~CandValid)
            => /\ tx' = <<>>
               /\ unit' = unit
               /\ pc' = "reader"
               /\ len' = 0
               /\ buf'[0] # STX ]_vars

\* the corrupted F1 frame has just been dropped
C2_Witness ==
    /\ pc = "reader" /\ len = 0 /\ l = 1 /\ rx = ETX
    /\ buf[0] = 0 /\ buf[1] = ch_F /\ buf[2] = ch_1
    /\ buf[3] = Byte(ch_F + ch_1 + 1) /\ buf[4] = ETX
    /\ tx = <<>>

(***************************************************************************)
(* C3.  A checksum-valid frame with an unrecognized F or R sub-command, or *)
(* whose first identifier byte is none of D, F, M, R, is answered (when    *)
(* the write does not fail) with the single byte NAK and nothing else; the *)
(* unit state is unchanged and the engine is back in the frame reader with *)
(* length 0, not in the handshake wait.                                    *)
(***************************************************************************)
C3_UnknownNak ==
    [][ (Completes /\ CandValid /\ Unrecognized(Cand) /\ pc' # "exit")
            => /\ tx' = << <<NAK>> >>
               /\ unit' = unit
               /\ pc' = "reader"
               /\ len' = 0
               /\ buf'[0] # STX ]_vars

\* STX 'R' 'R' ETX has just been refused
C3_Witness ==
    /\ pc = "reader" /\ len = 0 /\ rx = ETX
    /\ buf[1] = ch_R /\ buf[2] = ch_R /\ buf[3] = ETX
    /\ tx = << <<NAK>> >>

(***************************************************************************)
(* C4.  When the byte read after a reply is the start marker, it stays in  *)
(* buf[0] and the next reader cycle starts with length 1: the engine is in *)
(* the state the frame reader reaches by reading that start marker with    *)
(* length 0 (same buffer, same length), so the bytes that follow are       *)
(* accumulated, validated and dispatched as for a frame received from      *)
(* idle.  Nothing is written (no NAK) and nothing else changes.            *)
(***************************************************************************)
C4_StxCarriedOver ==
    [][ /\ (HandshakeStep /\ rx' = STX)
            => /\ len' = 1
               /\ buf' = [buf EXCEPT ![0] = STX]
               /\ tx' = <<>>
               /\ unit' = unit /\ response' = response /\ status' = status
        /\ (ReaderStep /\ len = 0 /\ rx' = STX)
            => /\ pc' = "reader"
               /\ len' = 1
               /\ buf' = [buf EXCEPT ![0] = STX]
               /\ tx' = <<>>
               /\ unit' = unit /\ response' = response /\ status' = status ]_vars

\* after the reply to F1 the peer sent the start marker, which is kept
C4_Witness ==
    /\ pc = "reader" /\ len = 1 /\ rx = STX /\ l = 1
    /\ buf[0] = STX /\ buf[1] = ch_F /\ buf[2] = ch_1 /\ buf[4] = ETX
    /\ response[1] = ch_G /\ response[2] = ch_1
    /\ tx = <<>>

\* the four payload bytes of a frame held in an array
PayloadOf(c) == [i \in 1..S21_PAYLOAD_LEN |-> c[S21_PAYLOAD_OFFSET + i - 1]]

\* two ASCII digits, a target temperature of 18.0 .. 30.0 on the half-degree
\* grid, a fan speed 0 .. 6
SupportedD1(p) ==
    /\ p[1] \in ch_0..ch_9
    /\ p[2] \in ch_0..ch_9
    /\ p[3] \in AC_MIN_TEMP_VALUE..(AC_MIN_TEMP_VALUE + 24)
    /\ p[4] \in ch_0..ch_6

(***************************************************************************)
(* C5.  A checksum-valid D1 frame with four supported payload bytes is     *)
(* answered with the bare ACK; and whenever F1 is answered, the four       *)
(* payload bytes of the reply are the payload bytes of the last D1 frame   *)
(* handled before it, whatever was handled in between.                     *)
(***************************************************************************)
C5_SetThenQuery ==
    [][ /\ ( /\ Completes /\ CandValid /\ pc' # "exit"
             /\ Cand[1] = ch_D /\ Cand[2] = ch_1
             /\ CandLen = S21_FRAMING_LEN + 2 + S21_PAYLOAD_LEN
             /\ SupportedD1(PayloadOf(Cand)) )
            => /\ tx' = << <<ACK>> >>
               /\ pc' = "reader"
               /\ lastD1' = PayloadOf(Cand)
        /\ ( /\ Completes /\ CandValid /\ pc' # "exit"
             /\ Cand[1] = ch_F /\ Cand[2] = ch_1
             /\ lastD1 # <<>> /\ SupportedD1(lastD1) )
            => /\ AckThenFrame(tx')
               /\ Len(tx'[2]) = S21_FRAMING_LEN + 2 + S21_PAYLOAD_LEN
               /\ [i \in 1..S21_PAYLOAD_LEN |-> tx'[2][S21_PAYLOAD_OFFSET + i]] = lastD1 ]_vars

\* F1 has been answered after D1 set power 1, mode 2, 20.0 degrees, fan 1,
\* and swing was set in between
C5_Witness ==
    /\ pc = "handshake"
    /\ buf[1] = ch_F /\ buf[2] = ch_1
    /\ lastD1 = <<ch_1, ch_2, ch_D, ch_1>>
    /\ swing = 1
    /\ AckThenFrame(tx)
    /\ [i \in 1..S21_PAYLOAD_LEN |-> tx[2][S21_PAYLOAD_OFFSET + i]] = lastD1

(***************************************************************************)
(* C9.  A checksum-valid frame whose first identifier byte is D is         *)
(* answered (when the write does not fail) with the single byte ACK and    *)
(* nothing else, and the engine is back in the frame reader with length 0, *)
(* not in the handshake wait; when the sub-command is none of 1, 5, 6 the  *)
(* unit state is unchanged.                                                *)
(***************************************************************************)
C9_SetBareAck ==
    [][ (Completes /\ CandValid /\ Cand[1] = ch_D /\ pc' # "exit")
            => /\ tx' = << <<ACK>> >>
               /\ pc' = "reader"
               /\ len' = 0
               /\ buf'[0] # STX
               /\ (Cand[2] \notin RecognizedD => unit' = unit) ]_vars

\* STX 'D' 'D' ETX, a set command with an unknown sub-command, was acknowledged
C9_Witness ==
    /\ pc = "reader" /\ len = 0 /\ rx = ETX
    /\ buf[1] = ch_D /\ buf[2] = ch_D /\ buf[3] = ETX
    /\ tx = << <<ACK>> >>

(***************************************************************************)
(* C10.  The handshake wait ends with the first byte read: every step      *)
(* taken from it that does not exit leads back to the frame reader.  When  *)
(* the byte is not the start marker (ACK or anything else) it is           *)
(* discarded: the next cycle starts with length 0, nothing is written and  *)
(* neither the unit state nor the response buffer changes.  The wait is    *)
(* entered only by a step that wrote ACK and a framed response.            *)
(***************************************************************************)
C10_HandshakeDiscipline ==
    [][ /\ (HandshakeStep /\ rx' # STX)
            => /\ len' = 0
               /\ buf'[0] # STX
               /\ tx' = <<>>
               /\ unit' = unit /\ response' = response
        /\ (pc = "handshake" /\ pc' # "exit") => pc' = "reader"
        /\ (pc # "handshake" /\ pc' = "handshake")
            => (pc = "reader" /\ AckThenFrame(tx')) ]_vars

\* the byte after the reply was neither ACK nor the start marker
C10_Witness ==
    /\ pc = "reader" /\ len = 0 /\ rx = NAK
    /\ buf[0] = 0 /\ buf[1] = ch_R /\ buf[2] = ch_H
    /\ tx = <<>>

(***************************************************************************)
(* C6.  (Refuted by the code.)  When the buffer is full and its last byte  *)
(* is not the end marker, the candidate is discarded whatever it holds:    *)
(* nothing is written, the unit state is unchanged, and the reader starts  *)
(* again with length 0.  Stated for steps in which no write fails.         *)
(***************************************************************************)
C6_FrameTooLongDiscarded ==
    [][ (ReaderStep /\ len >= 1 /\ CandLen = BufSize /\ rx' # ETX /\ pc' # "exit")
            => /\ tx' = <<>>
               /\ unit' = unit
               /\ pc' = "reader"
               /\ len' = 0
               /\ buf'[0] # STX ]_vars

(***************************************************************************)
(* C7.  (Refuted by the code.)  A candidate frame causes output, a change  *)
(* of the unit state or a handshake wait only if its length is between 4   *)
(* and 10 bytes and its checksum matches.                                  *)
(***************************************************************************)
C7_AcceptedWithinBounds ==
    [][ (Completes /\ (tx' # <<>> \/ unit' # unit \/ pc' = "handshake"))
            => /\ CandLen >= S21_FRAMING_LEN + 1
               /\ CandLen <= S21_FRAMING_LEN + 2 + 5
               /\ CandValid ]_vars

(***************************************************************************)
(* C8.  (Refuted by the code.)  Once the channel is closed, so that read() *)
(* returns 0, the process eventually terminates with a non-zero status.    *)
(***************************************************************************)
C8_ChannelLossTerminates ==
    (chan = "closed") ~> (pc = "exit" /\ status # 0)

(***************************************************************************)
(* The command line: main() parses the options and tests the model code    *)
(* before it opens the port.  ModelCodes are --model arguments of several  *)
(* lengths; the empty one stands for --model ''.                           *)
(***************************************************************************)
ModelCodes ==
    { <<>>,
      <<ch_1, ch_3, ch_5>>,
      <<ch_1, ch_3, ch_5, ch_D>>,
      <<ch_F, ch_D, ch_M, ch_X>>,
      <<ch_1, ch_3, ch_5, ch_D, ch_X>> }

\* the state main() starts from with the given model code and sensor values
Start(m, h, o, i) ==
    /\ pc = "config"
    /\ status = 0
    /\ \E g \in JunkBytes : buf = [k \in 0..(BufSize - 1) |-> IF k = 0 THEN 0 ELSE g]
    /\ len = 0
    /\ l = 0
    /\ \E g \in JunkBytes : response = [k \in 0..(RespSize - 1) |-> g]
    /\ power = 0
    /\ mode = 3
    /\ temp = 45
    /\ fan = 3
    /\ swing = 0
    /\ powerful = 0
    /\ eco = 0
    /\ home = h
    /\ outside = o
    /\ inlet = i
    /\ fanrpm = 52
    /\ comprpm = 42
    /\ protocol = 2
    /\ model = m
    /\ chan = "open"
    /\ rx = 0
    /\ tx = <<>>
    /\ lastD1 = <<>>

InitConfig == \E m \in ModelCodes : Start(m, 245, 205, 185)

(***************************************************************************)
(* if (!model || strlen(model) < 4) return -1; otherwise the port is       *)
(* opened and the engine starts reading.                                   *)
(***************************************************************************)
ModelRejected(m) == Len(m) < 4

Configure ==
    /\ pc = "config"
    /\ IF ModelRejected(model)
         THEN pc' = "exit" /\ status' = EXIT_FAILURE_255
         ELSE pc' = "reader" /\ status' = status
    /\ UNCHANGED <<buf, len, l, response, unit, chan, rx, tx, lastD1>>

ConfigFrames ==
    { Framed(<<ch_F, ch_C>>), Framed(<<ch_F, ch_1>>), Framed(D1Body),
      Framed(<<ch_M>>), Framed(<<ch_R, ch_H>>) }

NextConfig ==
    \/ Configure
    \/ ReadByte(ConfigFrames)
    \/ HandshakeByte

SpecConfig == InitConfig /\ [][NextConfig]_vars

Running == pc \in {"reader", "handshake"}

(***************************************************************************)
(* C11: while the engine runs the model code has exactly 4 characters      *)
(* (a code of any other length was rejected at configuration), and no      *)
(* step changes the model code.                                            *)
(***************************************************************************)
C11_ModelCodeFour ==
    /\ [](Running => Len(model) = 4)
    /\ [][model' = model]_vars

SetStep(c) ==
    /\ Completes
    /\ CandValid
    /\ Cand[S21_CMD0_OFFSET] = ch_D
    /\ Cand[S21_CMD1_OFFSET] = c

(***************************************************************************)
(* C12: the unit state is assigned only by the set handlers.  A step that  *)
(* handles D1 leaves every field but power, mode, temp and fan unchanged,  *)
(* D5 every field but swing, D6 every field but powerful; every other step *)
(* (queries, probes, sensor reads, unknown sets, NAKs, dropped frames,     *)
(* garbage, handshakes) leaves all fields unchanged; eco, the sensors, the *)
(* rpm values, protocol and model never change.                            *)
(***************************************************************************)
C12_FrameEffect ==
    [][ /\ <<eco, home, outside, inlet, fanrpm, comprpm, protocol, model>>' =
           <<eco, home, outside, inlet, fanrpm, comprpm, protocol, model>>
        /\ SetStep(ch_1) => <<swing, powerful>>' = <<swing, powerful>>
        /\ SetStep(ch_5) =>
             <<power, mode, temp, fan, powerful>>' = <<power, mode, temp, fan, powerful>>
        /\ SetStep(ch_6) =>
             <<power, mode, temp, fan, swing>>' = <<power, mode, temp, fan, swing>>
        /\ ~(\E c \in RecognizedD : SetStep(c)) => unit' = unit ]_vars

\* D1, D5 and D6 have each assigned their fields
C12_Witness ==
    /\ power = 1 /\ mode = 2 /\ temp = 40 /\ fan = 1
    /\ swing = 1
    /\ powerful = 1
    /\ pc = "handshake"

ProbeStep ==
    /\ Completes
    /\ CandValid
    /\ Cand[S21_CMD0_OFFSET] = ch_M

\* the probe's reply as the peer sees it: body 'M' 'F' 'F' 'F' 'F'
ProbeReply == Framed(<<ch_M, ch_F, ch_F, ch_F, ch_F>>)

(***************************************************************************)
(* C13: every checksum-valid frame whose first identifier byte is 'M',     *)
(* whatever its second identifier byte and payload, is answered with ACK   *)
(* followed by the same frame with body 'M' 'F' 'F' 'F' 'F'; the engine    *)
(* then waits for the handshake byte and the unit state is unchanged.      *)
(* (A failed write ends the process instead.)                              *)
(***************************************************************************)
C13_ProbeFixedReply ==
    [][ (ProbeStep /\ pc' # "exit") =>
          /\ tx' = << <<ACK>>, ProbeReply >>
          /\ pc' = "handshake"
          /\ unit' = unit ]_vars

\* the probe with seven payload bytes has been answered with the fixed frame
C13_Witness ==
    /\ pc = "handshake"
    /\ buf[S21_CMD0_OFFSET] = ch_M
    /\ buf[S21_CMD1_OFFSET] = ch_0
    /\ len = S21_FRAMING_LEN + 1 + ExtraPayload
    /\ tx = << <<ACK>>, ProbeReply >>

(***************************************************************************)
(* The engine asked several queries in any order, among them F8, between   *)
(* replies that leave different bytes in the response array.               *)
(***************************************************************************)
QueryFrames ==
    { Framed(<<ch_F, ch_8>>), Framed(<<ch_F, ch_1>>), Framed(<<ch_F, ch_5>>),
      Framed(<<ch_F, ch_C>>), Framed(<<ch_F, ch_2>>), Framed(<<ch_M>>),
      Framed(<<ch_R, ch_L>>), Framed(<<ch_D, ch_5, ch_1, ch_0, ch_0, ch_0>>),
      Framed(D1Body) }

NextQuery ==
    \/ ReadByte(QueryFrames)
    \/ HandshakeByte

SpecQuery == Init /\ [][NextQuery]_vars

QueryStep ==
    /\ Completes
    /\ CandValid
    /\ Cand[S21_CMD0_OFFSET] = ch_F
    /\ Cand[S21_CMD1_OFFSET] \in RecognizedF
    /\ pc' = "handshake"

\* a response array that an earlier transaction left filled with g
LeftOver(g) == [i \in 0..(RespSize - 1) |-> g]

(***************************************************************************)
(* C14: the reply to a recognized F query is a function of the unit state  *)
(* and the request alone: whatever bytes earlier transactions left in the  *)
(* response array, the frame sent is the one the same request gets in the  *)
(* same unit state from any other earlier content.                         *)
(***************************************************************************)
C14_ReplyFromStateOnly ==
    [][ QueryStep =>
          \A g \in JunkBytes :
             LET h == QueryCommand(Cand, LeftOver(g))
             IN  tx'[2] = Bytes(h.resp, h.pkt_len) ]_vars

\* a frame the engine wrote, as the buffer of a receiver that read it
Received(f) == [i \in 0..(Len(f) - 1) |-> f[i + 1]]

(***************************************************************************)
(* C15: every reply frame the engine builds (body length 5 or 6) passes    *)
(* the engine's own validation: the checksum recomputed over the frame     *)
(* equals the frame's second-to-last byte.                                 *)
(***************************************************************************)
C15_ChecksumRoundTrip ==
    pc = "handshake" =>
       /\ Len(tx) = 2
       /\ Len(tx[2]) \in {S21_FRAMING_LEN + 5, S21_FRAMING_LEN + 6}
       /\ ChecksumOk(Received(tx[2]), Len(tx[2]))

\* a body of length 5 (fan rpm) and its checksum have been sent
C15_Witness ==
    /\ pc = "handshake"
    /\ buf[S21_CMD0_OFFSET] = ch_R
    /\ buf[S21_CMD1_OFFSET] = ch_L
    /\ Len(tx[2]) = S21_FRAMING_LEN + 5
    /\ tx[2][Len(tx[2]) - 1] = Byte(SeqSum(SubSeq(tx[2], 2, Len(tx[2]) - 2)))

(***************************************************************************)
(* send_temp over its domain: the temperature globals start from values    *)
(* of one, two and three digits of either sign, and the peer asks the      *)
(* five temperature queries.                                               *)
(***************************************************************************)
SensorValues == {245, 45, 5, 0, -5, -45, -245, 999, -999}

InitSensor ==
    \E h \in SensorValues, o \in {205, -5}, i \in {185, 45} :
       Start(<<ch_1, ch_3, ch_5, ch_D>>, h, o, i)

SensorFrames ==
    { Framed(<<ch_R, ch_H>>), Framed(<<ch_R, ch_I>>), Framed(<<ch_R, ch_a>>),
      Framed(<<ch_R, ch_N>>), Framed(<<ch_R, ch_X>>) }

NextSensor ==
    \/ Configure
    \/ ReadByte(SensorFrames)
    \/ HandshakeByte

SpecSensor == InitSensor /\ [][NextSensor]_vars

TempQueries == {ch_H, ch_I, ch_a, ch_N, ch_X}

\* the value the temperature query c reports
TempValue(c) ==
    CASE c = ch_H -> home
      [] c = ch_I -> inlet
      [] c = ch_a -> outside
      [] c = ch_N -> 235
      [] c = ch_X -> 215

TempStep ==
    /\ Completes
    /\ CandValid
    /\ Cand[S21_CMD0_OFFSET] = ch_R
    /\ Cand[S21_CMD1_OFFSET] \in TempQueries
    /\ pc' = "handshake"

\* p, read backwards, is a sign and three decimal digits that spell v
SignedDecimal4(p, v) ==
    /\ p[4] = (IF v < 0 THEN ch_minus ELSE ch_plus)
    /\ \A k \in 1..3 : p[k] \in ch_0..ch_9
    /\ 100 * (p[3] - ch_0) + 10 * (p[2] - ch_0) + (p[1] - ch_0) = Abs(v)

DelimFrames ==
    LongFrames \cup
    { Framed(<<ch_D, ch_5, STX, ch_0, ch_0, ch_0>>),
      <<STX, ch_D, ch_5, ETX>>,
      <<STX, ch_D, ETX>>,
      <<STX, ch_D, ch_D, ETX>>,
      Framed(<<ch_R, ch_H>>) }

NextDelim ==
    \/ ReadByte(DelimFrames)
    \/ HandshakeByte

SpecDelim == Init /\ [][NextDelim]_vars

\* the step only stored the byte: nothing validated, written or assigned
Accumulated ==
    /\ pc' = "reader"
    /\ len' = len + 1
    /\ buf' = Cand
    /\ tx' = <<>>
    /\ unit' = unit

\* the step handed the candidate to validation and the reader cycle ended
Handed == pc' # "reader" \/ len' = 0

(***************************************************************************)
(* C17: the candidate handed to validation is the bytes from the first STX *)
(* received outside a frame through the first ETX after it.  A byte other  *)
(* than STX received outside a frame is discarded, with no output and no   *)
(* state change; inside a frame every byte but ETX, STX included, is only  *)
(* accumulated; ETX ends the accumulation wherever it sits.                *)
(***************************************************************************)
C17_Delimiting ==
    /\ []((pc = "reader" /\ len >= 1) =>
             /\ buf[S21_STX_OFFSET] = STX
             /\ \A k \in 1..(len - 1) : buf[k] # ETX)
    /\ [][ (ReaderStep /\ len = 0 /\ rx' # STX) =>
              /\ pc' = "reader" /\ len' = 0
              /\ tx' = <<>> /\ unit' = unit ]_vars
    /\ [][ (ReaderStep /\ len = 0 /\ rx' = STX) => Accumulated ]_vars
    /\ [][ (ReaderStep /\ len >= 1 /\ rx' # ETX) => Accumulated ]_vars
    /\ [][ (ReaderStep /\ len >= 1 /\ rx' = ETX) => Handed ]_vars

StandardReplyStep ==
    /\ Completes
    /\ CandValid
    /\ \/ Cand[S21_CMD0_OFFSET] = ch_F /\ Cand[S21_CMD1_OFFSET] \in RecognizedF
       \/ Cand[S21_CMD0_OFFSET] = ch_R /\ Cand[S21_CMD1_OFFSET] \in RecognizedR
    /\ pc' = "handshake"

(***************************************************************************)
(* C18: the reply to every recognized F and R query, the rpm queries RL    *)
(* and Rd included, carries the identifier bytes (first request identifier *)
(* byte + 1, second request identifier byte).                              *)
(***************************************************************************)
C18_ResponseIdentifier ==
    [][ StandardReplyStep =>
          /\ tx'[2][1 + S21_CMD0_OFFSET] = Byte(Cand[S21_CMD0_OFFSET] + 1)
          /\ tx'[2][1 + S21_CMD1_OFFSET] = Cand[S21_CMD1_OFFSET] ]_vars

(***************************************************************************)
(* Set frames with fewer than four payload bytes, between full-length      *)
(* frames that leave different bytes in the receive buffer.                *)
(***************************************************************************)
ShortFrames ==
    { Framed(<<ch_D, ch_1>>), Framed(<<ch_D, ch_1, ch_1>>),
      Framed(<<ch_D, ch_5>>), Framed(<<ch_D, ch_6>>),
      Framed(D1Body), Framed(D1Defaults),
      Framed(<<ch_D, ch_5, ch_1, ch_0, ch_0, ch_0>>),
      Framed(<<ch_F, ch_1>>) }

NextShort ==
    \/ ReadByte(ShortFrames)
    \/ HandshakeByte

SpecShort == Init /\ [][NextShort]_vars

\* the frame b of length n with g at every place that is not one of its
\* identifier or payload bytes: the checksum, the end marker and what follows
OnlyFrame(b, n, g) == [k \in DOMAIN b |-> IF k >= n - 2 THEN g ELSE b[k]]

(***************************************************************************)
(* C19: the unit state after a checksum-valid D1, D5 or D6 frame is a      *)
(* function of the state before it and of the frame's payload bytes alone: *)
(* it is the state the handler computes whatever the checksum byte, the    *)
(* end marker and the bytes an earlier frame left behind them are.         *)
(***************************************************************************)
C19_SetReadsOnlyFrame ==
    [][ ((\E c \in RecognizedD : SetStep(c)) /\ pc' = "reader") =>
          \A g \in JunkBytes :
             LET h == SetCommand(OnlyFrame(Cand, CandLen, g))
             IN  <<power, mode, temp, fan, swing, powerful>>' =
                 <<h.power, h.mode, h.temp, h.fan, h.swing, h.powerful>> ]_vars

\* a step after which the outer loop starts a new reader cycle
CycleStart == HandshakeStep \/ (Completes /\ pc' = "reader")

(***************************************************************************)
(* C20: a reader cycle starts with the start marker carried over in the    *)
(* buffer (length 1) exactly when the step before it was a handshake wait  *)
(* that read STX.  The first cycle, and the cycle after a bad-checksum     *)
(* drop, a set command's ACK, a NAK or a handshake byte other than STX,    *)
(* starts with length 0 and without STX in buf[0], although the frame just *)
(* processed began with STX.                                               *)
(***************************************************************************)
C20_CarryOver ==
    /\ (len = 0 /\ buf[S21_STX_OFFSET] # STX)
    /\ [][ CycleStart =>
             IF HandshakeStep /\ rx' = STX
             THEN len' = 1 /\ buf'[S21_STX_OFFSET] = STX
             ELSE len' = 0 /\ buf'[S21_STX_OFFSET] # STX ]_vars

\* the cycle after the set command D5, whose frame began with STX, starts empty
C20_Witness ==
    /\ pc = "reader" /\ len = 0 /\ rx = ETX
    /\ buf[S21_STX_OFFSET] = 0
    /\ buf[S21_CMD0_OFFSET] = ch_D /\ buf[S21_CMD1_OFFSET] = ch_5
    /\ swing = 1
    /\ tx = << <<ACK>> >>

============================================================================
